---- MODULE Spec2Model ----
(***************************************************************************)
(* Model of src/app.py: calculate_roic_for_ticker, the per-period field    *)
(* extraction with its fallbacks, the ROIC arithmetic, the two levels of   *)
(* exception suppression and the st.cache_data memoization around it.      *)
(*                                                                         *)
(* Cells of the provider's frames are numbers (exact rationals n/d stand   *)
(* for the floats), NaN, or None (a null cell of an object-dtype frame:    *)
(* every arithmetic operation on it raises TypeError).                     *)
(***************************************************************************)
EXTENDS Integers, Sequences, FiniteSets, TLC

VARIABLES
    statements,           \* provider: ticker -> [inc, bal] frames it would return
    up,                   \* provider: TRUE when a fetch succeeds, FALSE when it raises
    cache,                \* st.cache_data: (ticker_symbol, num_years) -> stored return value
    pc,                   \* "idle", or "loop" inside the for loop of an invocation
    args,                 \* arguments of the invocation in progress / last invocation
    common_dates,         \* the list the for loop iterates (line 30)
    i,                    \* number of loop iterations done
    loc,                  \* the loop body's local variables (they persist across iterations)
    caught,               \* source line at which the last iteration raised, 0 if it did not
    roic_values_by_year,  \* the dict being filled (line 19)
    result,               \* what the last finished invocation returned to its caller
    from_cache,           \* TRUE when that return value came from the memoization cache
    todo                  \* invocations the session still makes

vars == <<statements, up, cache, pc, args, common_dates, i, loc, caught,
          roic_values_by_year, result, from_cache, todo>>

----------------------------------------------------------------------------
(* Bounds *)

MaxYears == 3
MaxCalls == 3
MaxPeriods == 3

----------------------------------------------------------------------------
(* Cells and float arithmetic (exact rationals, NaN propagation, TypeError) *)

Abs(x) == IF x < 0 THEN -x ELSE x

RECURSIVE GCD(_, _)
GCD(a, b) == IF b = 0 THEN a ELSE GCD(b, a % b)

Cell(kind, n, d) == [k |-> kind, n |-> n, d |-> d]

\* a finite number n/d, kept in lowest terms with d > 0
Num(n, d) ==
    LET s == IF d < 0 THEN -1 ELSE 1
        g == GCD(Abs(n), Abs(d))
    IN  Cell("num", (s * n) \div g, (s * d) \div g)

Int2(n) == Cell("num", n, 1)
NaN == Cell("nan", 0, 1)          \* np.nan / a NaN cell
None == Cell("none", 0, 1)        \* Python None (null cell, or .get() of a missing key)
Raise == Cell("raise", 0, 1)      \* the expression raised an exception
Unbound == Cell("unbound", 0, 1)  \* a local not assigned yet
Absent == Cell("absent", 0, 1)    \* marks a row label that is not in the frame's index

IsNum(a) == a.k = "num"

\* binary float operation: TypeError on None, NaN propagates
Arith(a, b, v) ==
    IF a.k = "raise" \/ b.k = "raise" \/ a.k = "none" \/ b.k = "none" THEN Raise
    ELSE IF a.k = "nan" \/ b.k = "nan" THEN NaN
    ELSE v

Add(a, b) == Arith(a, b, Num(a.n * b.d + b.n * a.d, a.d * b.d))
Sub(a, b) == Arith(a, b, Num(a.n * b.d - b.n * a.d, a.d * b.d))
Mul(a, b) == Arith(a, b, Num(a.n * b.n, a.d * b.d))
\* float division; a zero divisor gives inf/nan in numpy, never reached by the code's guards
Div(a, b) == Arith(a, b, IF b.n = 0 THEN NaN ELSE Num(a.n * b.d, a.d * b.n))

\* x > 0 on a number or NaN (False on NaN)
GtZero(a) == a.k = "num" /\ a.n > 0

\* bool(x): None and 0 are falsy, NaN is truthy
Truthy(a) == ~(a.k = "none" \/ (a.k = "num" /\ a.n = 0))

\* pd.isna(x)
IsNa(a) == a.k \in {"nan", "none"}

----------------------------------------------------------------------------
(* Frames and series *)

IncFields == {"EBIT", "Operating Income", "Tax Rate For Calcs", "Pretax Income",
              "Tax Provision"}
BalFields == {"Stockholders Equity", "Total Equity Gross Minority Interest",
              "Total Debt", "Current Debt And Capital Lease Obligation",
              "Long Term Debt And Capital Lease Obligation",
              "Cash And Cash Equivalents",
              "Cash Cash Equivalents And Short Term Investments"}

\* A frame is [index |-> row labels, cols |-> period-end date -> (row label -> cell)].
\* DataFrame.empty: either axis has length 0
FrameEmpty(f) == f.index = {} \/ DOMAIN f.cols = {}

\* income_stmt[date]: the column as a Series carrying the frame's index
Column(f, date) == [index |-> f.index, col |-> f.cols[date]]

\* Series.get(key, default): the cell when the label is in the index, else the default
SeriesGet(s, key, default) == IF key \in s.index THEN s.col[key] ELSE default

\* date.year of a period-end date written yyyymm
YearOf(date) == date \div 100

EmptyDict == [y \in {} |-> NaN]

\* d[key] = v
DictPut(d, key, v) == [y \in (DOMAIN d) \cup {key} |-> IF y = key THEN v ELSE d[y]]

----------------------------------------------------------------------------
(* Per-period extraction, lines 38-53 *)

DefaultTaxRate == Num(21, 100)

Ebit(is_data) ==
    SeriesGet(is_data, "EBIT", SeriesGet(is_data, "Operating Income", Int2(0)))

\* line 42
TaxRateField(is_data) == SeriesGet(is_data, "Tax Rate For Calcs", None)

\* TaxRate with the `> 0` comparison dropped from the guard (truthiness alone)
TaxRateTruthyOnly(is_data) ==
    LET tax_rate == TaxRateField(is_data)
        pretax_inc == SeriesGet(is_data, "Pretax Income", Int2(0))
        tax_prov == SeriesGet(is_data, "Tax Provision", Int2(0))
    IN  IF tax_rate.k = "none" \/ IsNa(tax_rate)
        THEN IF Truthy(pretax_inc)
             THEN Div(tax_prov, pretax_inc)
             ELSE DefaultTaxRate
        ELSE tax_rate

\* lines 43-46; Raise when the division raises
TaxRate(is_data) ==
    LET tax_rate == TaxRateField(is_data)
        pretax_inc == SeriesGet(is_data, "Pretax Income", Int2(0))
        tax_prov == SeriesGet(is_data, "Tax Provision", Int2(0))
    IN  IF tax_rate.k = "none" \/ IsNa(tax_rate)
        THEN IF Truthy(pretax_inc) /\ GtZero(pretax_inc)
             THEN Div(tax_prov, pretax_inc)
             ELSE DefaultTaxRate
        ELSE tax_rate

Equity(bs_data) ==
    SeriesGet(bs_data, "Stockholders Equity",
              SeriesGet(bs_data, "Total Equity Gross Minority Interest", Int2(0)))

\* lines 50-52: the default argument (the sum) is evaluated before .get is called
TotalDebt(bs_data) ==
    LET sum == Add(SeriesGet(bs_data, "Current Debt And Capital Lease Obligation", Int2(0)),
                   SeriesGet(bs_data, "Long Term Debt And Capital Lease Obligation", Int2(0)))
    IN  IF sum.k = "raise" THEN Raise ELSE SeriesGet(bs_data, "Total Debt", sum)

Cash(bs_data) ==
    SeriesGet(bs_data, "Cash And Cash Equivalents",
              SeriesGet(bs_data, "Cash Cash Equivalents And Short Term Investments", Int2(0)))

\* Nopat with a NaN EBIT filled with 0
NopatNanAsZero(ebit, tax_rate) ==
    Mul(IF ebit.k = "nan" THEN Int2(0) ELSE ebit, Sub(Int2(1), tax_rate))

\* line 55
Nopat(ebit, tax_rate) == Mul(ebit, Sub(Int2(1), tax_rate))

\* InvestedCapital with cash added instead of subtracted
InvestedCapitalPlusCash(equity, total_debt, cash) == Add(Add(equity, total_debt), cash)

\* line 56
InvestedCapital(equity, total_debt, cash) == Sub(Add(equity, total_debt), cash)

\* Roic without the `invested_capital > 0` guard
RoicNoGuard(nopat, invested_capital) == Div(nopat, invested_capital)

\* lines 58-61: the value stored for the period
Roic(nopat, invested_capital) ==
    IF GtZero(invested_capital) THEN Div(nopat, invested_capital) ELSE NaN

----------------------------------------------------------------------------
(* The loop body, lines 33-64 *)

NoLocals ==
    [date |-> 0, year |-> 0, ebit |-> Unbound, tax_rate |-> Unbound,
     pretax_inc |-> Unbound, tax_prov |-> Unbound, equity |-> Unbound,
     total_debt |-> Unbound, cash |-> Unbound, nopat |-> Unbound,
     invested_capital |-> Unbound]

\* One iteration for `date`: [loc, dict, caught], caught the line that raised (0: none).
\* Locals assigned before the raising line keep their new values.
LoopBody(inc, bal, date, l0, dict) ==
    LET is_data == Column(inc, date)
        bs_data == Column(bal, date)
        l1 == [l0 EXCEPT !.date = date, !.year = YearOf(date), !.ebit = Ebit(is_data)]
        field == TaxRateField(is_data)
        tax == TaxRate(is_data)
        l2 == IF field.k = "none" \/ IsNa(field)
              THEN [l1 EXCEPT !.tax_rate = IF tax.k = "raise" THEN field ELSE tax,
                              !.pretax_inc = SeriesGet(is_data, "Pretax Income", Int2(0)),
                              !.tax_prov = SeriesGet(is_data, "Tax Provision", Int2(0))]
              ELSE [l1 EXCEPT !.tax_rate = tax]
        l3 == [l2 EXCEPT !.equity = Equity(bs_data)]
        debt == TotalDebt(bs_data)
        l4 == [l3 EXCEPT !.total_debt = debt, !.cash = Cash(bs_data)]
        nopat == Nopat(l4.ebit, l4.tax_rate)
        l5 == [l4 EXCEPT !.nopat = nopat]
        ic == InvestedCapital(l5.equity, l5.total_debt, l5.cash)
        l6 == [l5 EXCEPT !.invested_capital = ic]
    IN  IF tax.k = "raise" THEN [loc |-> l2, dict |-> dict, caught |-> 46]
        ELSE IF debt.k = "raise" THEN [loc |-> l3, dict |-> dict, caught |-> 50]
        ELSE IF nopat.k = "raise" THEN [loc |-> l4, dict |-> dict, caught |-> 55]
        ELSE IF ic.k = "raise" THEN [loc |-> l5, dict |-> dict, caught |-> 56]
        ELSE [loc |-> l6, dict |-> DictPut(dict, l6.year, Roic(nopat, ic)), caught |-> 0]

----------------------------------------------------------------------------
(* Period selection, lines 29-30 *)

SetMax(S) == CHOOSE m \in S : \A x \in S : x <= m

\* sorted(S, reverse=True)
RECURSIVE SortedDesc(_)
SortedDesc(S) ==
    IF S = {} THEN <<>> ELSE <<SetMax(S)>> \o SortedDesc(S \ {SetMax(S)})

\* seq[:n], Python slice semantics (a negative n drops the last -n elements)
PySlice(seq, n) ==
    LET len == Len(seq)
        k == IF n >= 0 THEN (IF n < len THEN n ELSE len)
                       ELSE (IF len + n > 0 THEN len + n ELSE 0)
    IN  SubSeq(seq, 1, k)

\* CommonDates sorted without reverse=True
RECURSIVE SortedAsc(_)
SortedAsc(S) ==
    IF S = {} THEN <<>> ELSE SortedAsc(S \ {SetMax(S)}) \o <<SetMax(S)>>

CommonDatesAscending(inc, bal, num_years) ==
    PySlice(SortedAsc((DOMAIN inc.cols) \cap (DOMAIN bal.cols)), num_years)

CommonDates(inc, bal, num_years) ==
    PySlice(SortedDesc((DOMAIN inc.cols) \cap (DOMAIN bal.cols)), num_years)

----------------------------------------------------------------------------
(* The function and its memoization, lines 17-68 *)

Tickers == {"V", "NOT_A_TICKER"}
NumYearsArgs == 0 .. MaxYears
Key(t, n) == <<t, n>>
Keys == Tickers \X NumYearsArgs

Returned(dict) == [raised |-> FALSE, val |-> dict]
Raised == [raised |-> TRUE, val |-> EmptyDict]

\* OuterExcept re-raising instead of returning
OuterReraise(dict) == Raised

\* InnerExcept leaving the loop instead of continuing
InnerBreak(idx, len) == len

\* lines 65-68: the outer handler swallows the exception and the dict built so far is returned
OuterExcept(dict) == Returned(dict)

\* lines 63-64: `continue` goes on with the next date; index of the next iteration
InnerExcept(idx, len) == idx + 1

\* the locals and the dict as a finished or cache-answered call leaves them
Finish(out, key, store) ==
    /\ result' = out
    /\ from_cache' = ~store
    /\ cache' = IF store /\ ~out.raised
                THEN [cache EXCEPT ![key] = [hit |-> TRUE, val |-> out.val]]
                ELSE cache
    /\ pc' = "idle"

\* calculate_roic_for_ticker(t, n) is called through the st.cache_data wrapper:
\* a stored value is returned without running the body; otherwise the body runs
\* lines 19-30 and either returns at once or enters the loop.
Call(t, n) ==
    /\ pc = "idle"
    /\ todo > 0
    /\ todo' = todo - 1
    /\ args' = [ticker_symbol |-> t, num_years |-> n]
    /\ IF cache[Key(t, n)].hit
       THEN /\ Finish(Returned(cache[Key(t, n)].val), Key(t, n), FALSE)
            /\ UNCHANGED <<common_dates, i, loc, caught, roic_values_by_year>>
       ELSE /\ roic_values_by_year' = EmptyDict
            /\ loc' = NoLocals
            /\ caught' = 0
            /\ i' = 0
            /\ IF ~up
               THEN /\ Finish(OuterExcept(EmptyDict), Key(t, n), TRUE)
                    /\ common_dates' = <<>>
               ELSE IF FrameEmpty(statements[t].inc) \/ FrameEmpty(statements[t].bal)
               THEN /\ Finish(Returned(EmptyDict), Key(t, n), TRUE)
                    /\ common_dates' = <<>>
               ELSE /\ common_dates' = CommonDates(statements[t].inc, statements[t].bal, n)
                    /\ pc' = "loop"
                    /\ UNCHANGED <<result, from_cache, cache>>
    /\ UNCHANGED <<statements, up>>

\* one iteration of the for loop, lines 32-64
LoopStep ==
    /\ pc = "loop"
    /\ i < Len(common_dates)
    /\ LET r == LoopBody(statements[args.ticker_symbol].inc,
                         statements[args.ticker_symbol].bal,
                         common_dates[i + 1], loc, roic_values_by_year)
       IN  /\ loc' = r.loc
           /\ roic_values_by_year' = r.dict
           /\ caught' = r.caught
           /\ i' = IF r.caught = 0 THEN i + 1 ELSE InnerExcept(i, Len(common_dates))
    /\ UNCHANGED <<statements, up, cache, pc, args, common_dates, result, from_cache, todo>>

\* line 68, and the wrapper storing the value
Return ==
    /\ pc = "loop"
    /\ i >= Len(common_dates)
    /\ Finish(Returned(roic_values_by_year), Key(args.ticker_symbol, args.num_years), TRUE)
    /\ UNCHANGED <<statements, up, args, common_dates, i, loc, caught,
                   roic_values_by_year, todo>>

\* the provider becomes unreachable: every fetch raises (line 21-23)
ProviderFail ==
    /\ pc = "idle" /\ up /\ todo > 0
    /\ up' = FALSE
    /\ UNCHANGED <<statements, cache, pc, args, common_dates, i, loc, caught,
                   roic_values_by_year, result, from_cache, todo>>

ProviderRecover ==
    /\ pc = "idle" /\ ~up /\ todo > 0
    /\ up' = TRUE
    /\ UNCHANGED <<statements, cache, pc, args, common_dates, i, loc, caught,
                   roic_values_by_year, result, from_cache, todo>>

\* the body run to completion on the provider's present answer, without the wrapper
RECURSIVE RunLoop(_, _, _, _, _)
RunLoop(inc, bal, dates, l, dict) ==
    IF dates = <<>> THEN dict
    ELSE LET r == LoopBody(inc, bal, Head(dates), l, dict)
         IN  RunLoop(inc, bal, Tail(dates), r.loc, r.dict)

FreshCall(stmts, isUp, t, n) ==
    IF ~isUp THEN OuterExcept(EmptyDict)
    ELSE IF FrameEmpty(stmts[t].inc) \/ FrameEmpty(stmts[t].bal) THEN Returned(EmptyDict)
    ELSE Returned(RunLoop(stmts[t].inc, stmts[t].bal,
                          CommonDates(stmts[t].inc, stmts[t].bal, n), NoLocals, EmptyDict))

----------------------------------------------------------------------------
(* Provider answers the model draws from *)

AllDates == <<202012, 202001, 201912, 201812, 201712>>
Dates == {AllDates[j] : j \in 1 .. MaxPeriods}

MkCol(fields, index, cells) == [f \in fields |-> IF f \in index THEN cells[f] ELSE Absent]
EmptyFrame == [index |-> {}, cols |-> [d \in {} |-> 0]]
NoData == [inc |-> EmptyFrame, bal |-> EmptyFrame]

\* one column per option of every row: "absent" leaves the row out of the index
Present(col) == {f \in DOMAIN col : col[f].k # "absent"}
OneDateFrame(col) == [index |-> Present(col), cols |-> [d \in {AllDates[1]} |-> col]]

IncomeCols ==
    {[f \in IncFields |->
        CASE f = "EBIT" -> e
          [] f = "Operating Income" -> o
          [] f = "Tax Rate For Calcs" -> t
          [] f = "Pretax Income" -> p
          [] OTHER -> v] :
      e \in {Absent, Int2(100), NaN, None}, o \in {Absent, Int2(80), NaN, None},
      t \in {Absent, Num(1, 4), NaN, None},
      p \in {Absent, Int2(50), Int2(0), Int2(-10), NaN, None},
      v \in {Absent, Int2(10), NaN, None}}
BalanceCols ==
    {[f \in BalFields |->
        CASE f = "Stockholders Equity" -> e
          [] f = "Total Equity Gross Minority Interest" -> g
          [] f = "Total Debt" -> t
          [] f = "Current Debt And Capital Lease Obligation" -> c
          [] f = "Long Term Debt And Capital Lease Obligation" -> l
          [] f = "Cash And Cash Equivalents" -> k
          [] OTHER -> s] :
      e \in {Absent, Int2(500), Int2(10), None}, g \in {Absent, Int2(400), None},
      t \in {Absent, Int2(200), NaN}, c \in {Absent, Int2(30), None},
      l \in {Absent, Int2(70)}, k \in {Absent, Int2(50), Int2(700), Int2(900)},
      s \in {Absent, Int2(60)}}

IncomeFew ==
    {c \in IncomeCols :
        /\ c["Operating Income"].k = "absent" /\ c["Pretax Income"].k = "absent"
        /\ c["Tax Provision"].k = "absent" /\ c["Tax Rate For Calcs"] = Num(1, 4)
        /\ c["EBIT"].k # "none"}
BalanceFew ==
    {c \in BalanceCols :
        /\ c["Stockholders Equity"] = Int2(500) /\ c["Total Debt"] = Int2(200)
        /\ c["Total Equity Gross Minority Interest"].k = "absent"
        /\ c["Current Debt And Capital Lease Obligation"].k = "absent"
        /\ c["Long Term Debt And Capital Lease Obligation"].k = "absent"
        /\ c["Cash Cash Equivalents And Short Term Investments"].k = "absent"
        /\ c["Cash And Cash Equivalents"].k # "absent"}

FieldData ==
    {[inc |-> OneDateFrame(a), bal |-> OneDateFrame(b)] :
        <<a, b>> \in (IncomeCols \X BalanceFew) \cup (IncomeFew \X BalanceCols)}

\* several periods, each with its own EBIT so that a stored value names its period
IncomeAt(d, kind) ==
    MkCol(IncFields, {"EBIT", "Tax Rate For Calcs"},
          [f \in IncFields |-> IF f = "EBIT"
                               THEN (IF kind = "bad" THEN None ELSE Int2(d - 201000))
                               ELSE Num(1, 4)])
BalanceAt(d, kind) ==
    MkCol(BalFields, {"Stockholders Equity", "Total Debt", "Cash And Cash Equivalents"},
          [f \in BalFields |->
              IF kind = "pos"
              THEN (CASE f = "Stockholders Equity" -> Int2(500)
                      [] f = "Total Debt" -> Int2(200) [] OTHER -> Int2(50))
              ELSE (CASE f = "Stockholders Equity" -> Int2(10)
                      [] f = "Total Debt" -> Int2(5) [] OTHER -> Int2(20))])

PeriodFrames(kI, kB) ==
    [inc |-> [index |-> {"EBIT", "Tax Rate For Calcs"},
              cols |-> [d \in {x \in Dates : kI[x] # "absent"} |-> IncomeAt(d, kI[d])]],
     bal |-> [index |-> {"Stockholders Equity", "Total Debt", "Cash And Cash Equivalents"},
              cols |-> [d \in {x \in Dates : kB[x] # "absent"} |-> BalanceAt(d, kB[d])]]]

PeriodData ==
    {PeriodFrames(kI, kB) : kI \in [Dates -> {"absent", "good", "bad"}],
                            kB \in [Dates -> {"absent", "pos", "neg"}]}

SessionData ==
    {PeriodFrames(kI, [d \in Dates |-> "pos"]) : kI \in [Dates -> {"good", "bad"}]}

----------------------------------------------------------------------------
(* Specifications *)

InitWith(data, ups, calls) ==
    /\ statements \in {[t \in Tickers |-> IF t = "V" THEN x ELSE NoData] : x \in data}
    /\ up \in ups
    /\ cache = [k \in Keys |-> [hit |-> FALSE, val |-> EmptyDict]]
    /\ pc = "idle"
    /\ args = [ticker_symbol |-> "", num_years |-> 0]
    /\ common_dates = <<>>
    /\ i = 0
    /\ loc = NoLocals
    /\ caught = 0
    /\ roic_values_by_year = EmptyDict
    /\ result = Returned(EmptyDict)
    /\ from_cache = FALSE
    /\ todo = calls

Invoke == \E t \in Tickers, n \in NumYearsArgs : Call(t, n)

\* a session of up to MaxCalls invocations with a provider that fails and recovers
Init == InitWith(SessionData, {TRUE}, MaxCalls)
Next == Invoke \/ LoopStep \/ Return \/ ProviderFail \/ ProviderRecover
Spec == Init /\ [][Next]_vars

\* one invocation over statements whose periods differ between the two frames
InitPeriods == InitWith(PeriodData, BOOLEAN, 1)
NextCalc == Invoke \/ LoopStep \/ Return
SpecPeriods == InitPeriods /\ [][NextCalc]_vars

\* one invocation over one period, every row present or absent, every kind of cell
InitFields == InitWith(FieldData, {TRUE}, 1)
SpecFields == InitFields /\ [][NextCalc]_vars

----------------------------------------------------------------------------
(* Vocabulary of the properties *)

\* an invocation has returned to its caller
Finished == pc = "idle" /\ args.ticker_symbol # ""

\* the loop body has run for loc.date (the last iteration)
Iterated == loc.date # 0

IncomeStmt == statements[args.ticker_symbol].inc
BalanceSheet == statements[args.ticker_symbol].bal
IsData == Column(IncomeStmt, loc.date)
BsData == Column(BalanceSheet, loc.date)

\* the frame has the row and the period's cell in it
Has(s, key) == key \in s.index
CellOf(s, key) == s.col[key]

\* numerator and denominator of equity + total_debt - cash over three numbers
CapitalN(e, d, c) == e.n * d.d * c.d + d.n * e.d * c.d - c.n * e.d * d.d
CapitalD(e, d, c) == e.d * d.d * c.d

AllNum(S) == \A x \in S : IsNum(x)

\* the last iteration's balance-sheet values are numbers whose capital is <= 0 / > 0
CapitalNonPositive ==
    /\ AllNum({Equity(BsData), TotalDebt(BsData), Cash(BsData)})
    /\ CapitalN(Equity(BsData), TotalDebt(BsData), Cash(BsData)) <= 0
CapitalPositive ==
    /\ AllNum({loc.equity, loc.total_debt, loc.cash})
    /\ CapitalN(loc.equity, loc.total_debt, loc.cash) > 0

Recorded == roic_values_by_year[loc.year]

----------------------------------------------------------------------------
(* Properties *)

\* C1: a period whose invested capital (equity + total debt - cash) is <= 0,
\* exactly 0 included, leaves the missing marker NaN for its year when it is
\* recorded, never a computed number, and the invocation raises nothing.
C1_NonPositiveCapitalIsMissing ==
    (Iterated /\ CapitalNonPositive) =>
        /\ caught = 0 => loc.year \in DOMAIN roic_values_by_year
        /\ loc.year \in DOMAIN roic_values_by_year => Recorded = NaN
        /\ ~result.raised

C1_Witness ==
    /\ Iterated /\ CapitalNonPositive /\ caught = 0
    /\ CapitalN(loc.equity, loc.total_debt, loc.cash) = 0
    /\ Recorded = NaN

\* C2: a period whose invested capital is > 0 records
\* EBIT * (1 - tax_rate) / (Equity + Debt - Cash), over the values extracted for
\* that same period (NaN when EBIT or the tax rate is NaN).
C2_RoicFormula ==
    (Iterated /\ caught = 0 /\ CapitalPositive) =>
        /\ loc.ebit = Ebit(IsData) /\ loc.tax_rate = TaxRate(IsData)
        /\ loc.equity = Equity(BsData) /\ loc.total_debt = TotalDebt(BsData)
        /\ loc.cash = Cash(BsData)
        /\ loc.year \in DOMAIN roic_values_by_year
        /\ IF IsNum(loc.ebit) /\ IsNum(loc.tax_rate)
           THEN /\ IsNum(Recorded)
                /\ Recorded.n * CapitalN(loc.equity, loc.total_debt, loc.cash)
                     * loc.ebit.d * loc.tax_rate.d
                   = loc.ebit.n * (loc.tax_rate.d - loc.tax_rate.n)
                     * Recorded.d * CapitalD(loc.equity, loc.total_debt, loc.cash)
           ELSE Recorded = NaN

\* EBIT=100, tax_rate=0.25, Equity=500, Debt=200, Cash=50: NOPAT 75, capital 650, ROIC 75/650
C2_Witness ==
    /\ Iterated /\ caught = 0
    /\ loc.ebit = Int2(100) /\ loc.tax_rate = Cell("num", 1, 4)
    /\ loc.equity = Int2(500) /\ loc.total_debt = Int2(200) /\ loc.cash = Int2(50)
    /\ loc.nopat = Int2(75) /\ loc.invested_capital = Int2(650)
    /\ Recorded = Cell("num", 3, 26)

\* the pre-computed tax-rate row is present for the period and its cell is defined
TaxFieldDefined ==
    Has(IsData, "Tax Rate For Calcs") /\ ~(CellOf(IsData, "Tax Rate For Calcs").k \in {"nan", "none"})

\* Pretax Income of the period is a number > 0
PretaxPositive ==
    /\ Has(IsData, "Pretax Income")
    /\ IsNum(CellOf(IsData, "Pretax Income")) /\ CellOf(IsData, "Pretax Income").n > 0

\* C5: the tax-rate field is used verbatim when present and defined; only
\* otherwise is the rate Tax Provision / Pretax Income, and only when Pretax
\* Income > 0; with Pretax Income absent, zero, negative or undefined it is 0.21.
C5_TaxRateSelection ==
    Iterated =>
        IF TaxFieldDefined
        THEN loc.tax_rate = CellOf(IsData, "Tax Rate For Calcs")
        ELSE IF PretaxPositive
        THEN LET prov == IF Has(IsData, "Tax Provision")
                         THEN CellOf(IsData, "Tax Provision") ELSE Int2(0)
                 pre == CellOf(IsData, "Pretax Income")
             IN  \/ /\ IsNum(prov) /\ IsNum(loc.tax_rate) /\ caught # 46
                    /\ loc.tax_rate.n * pre.n * prov.d = prov.n * pre.d * loc.tax_rate.d
                 \/ prov.k = "nan" /\ loc.tax_rate = NaN /\ caught # 46
                 \/ prov.k = "none" /\ caught = 46
        ELSE loc.tax_rate = Cell("num", 21, 100) /\ caught # 46

\* tax-rate row absent and Pretax Income = 0: the flat 0.21 applies
C5_Witness ==
    /\ Iterated /\ ~Has(IsData, "Tax Rate For Calcs")
    /\ Has(IsData, "Pretax Income") /\ CellOf(IsData, "Pretax Income") = Int2(0)
    /\ Has(IsData, "Tax Provision") /\ CellOf(IsData, "Tax Provision") = Int2(10)
    /\ loc.tax_rate = Cell("num", 21, 100)

\* C7 as stated: with the EBIT row and its fallback row both missing, the ROIC
\* recorded for the period is the missing marker, never a computed number.
C7_MissingEbitIsMissingRoic ==
    (Iterated /\ caught = 0 /\ ~Has(IsData, "EBIT") /\ ~Has(IsData, "Operating Income")) =>
        Recorded = NaN

\* C7 amended: when the EBIT taken for the period or its tax rate is NaN, NOPAT
\* is NaN and the ROIC recorded is the missing marker; with the EBIT row and the
\* Operating Income row both missing EBIT is 0, so with a numeric tax rate NOPAT
\* is 0 and the period records 0 when its invested capital is > 0.
C7_UndefinedNopatIsMissingRoic ==
    (Iterated /\ caught = 0) =>
        /\ (Ebit(IsData).k = "nan" \/ TaxRate(IsData).k = "nan") =>
              loc.nopat = NaN /\ Recorded = NaN
        /\ (~Has(IsData, "EBIT") /\ ~Has(IsData, "Operating Income")) =>
              /\ loc.ebit = Int2(0)
              /\ IsNum(loc.tax_rate) => loc.nopat = Int2(0)
              /\ (IsNum(loc.tax_rate) /\ CapitalPositive) => Recorded = Int2(0)

C7_Witness ==
    /\ Iterated /\ caught = 0
    /\ Has(IsData, "EBIT") /\ CellOf(IsData, "EBIT") = NaN
    /\ CapitalPositive
    /\ loc.nopat = NaN /\ Recorded = NaN

\* the first row of `keys` that the frame has, else 0
FirstAvailable(sr, first, second) ==
    IF Has(sr, first) THEN CellOf(sr, first)
    ELSE IF Has(sr, second) THEN CellOf(sr, second) ELSE Int2(0)

OrZero(sr, key) == IF Has(sr, key) THEN CellOf(sr, key) ELSE Int2(0)

\* C8: extraction applies its fallbacks in order, first available row wins:
\* EBIT, else Operating Income, else 0; Stockholders Equity, else Total Equity
\* Gross Minority Interest, else 0; Cash And Cash Equivalents, else Cash Cash
\* Equivalents And Short Term Investments, else 0; Total Debt if present, else
\* current + long-term debt with an absent term as 0.  A missing row is never an
\* error and a secondary row has no influence when the primary row is there.
C8_FirstAvailableWins ==
    Iterated =>
        /\ loc.ebit = FirstAvailable(IsData, "EBIT", "Operating Income")
        /\ caught # 46 =>
              /\ loc.equity = FirstAvailable(BsData, "Stockholders Equity",
                                             "Total Equity Gross Minority Interest")
              /\ Has(BsData, "Total Debt") =>
                    caught # 50 /\ loc.total_debt = CellOf(BsData, "Total Debt")
              /\ (~Has(BsData, "Total Debt")
                  /\ AllNum({OrZero(BsData, "Current Debt And Capital Lease Obligation"),
                             OrZero(BsData, "Long Term Debt And Capital Lease Obligation")})) =>
                    /\ caught # 50
                    /\ loc.total_debt =
                         Add(OrZero(BsData, "Current Debt And Capital Lease Obligation"),
                             OrZero(BsData, "Long Term Debt And Capital Lease Obligation"))
              /\ caught # 50 =>
                    loc.cash = FirstAvailable(BsData, "Cash And Cash Equivalents",
                                   "Cash Cash Equivalents And Short Term Investments")

\* the fetch of the last invocation failed as a whole: the provider raised, or a frame is empty
FetchFailed == ~up \/ FrameEmpty(IncomeStmt) \/ FrameEmpty(BalanceSheet)

\* the last invocation ran its body (it was not answered from the cache) and returned
Ran == Finished /\ ~from_cache

AllMissing(dict) == \A y \in DOMAIN dict : dict[y] = NaN

\* the loop body run on `date` alone raises
Fails(date) == LoopBody(IncomeStmt, BalanceSheet, date, NoLocals, EmptyDict).caught # 0

\* the value the period of `date` records when run alone
Alone(date) == LoopBody(IncomeStmt, BalanceSheet, date, NoLocals, EmptyDict).dict[YearOf(date)]

Selected == {common_dates[j] : j \in 1 .. Len(common_dates)}

\* C3: a failure of the fetch (the provider raises, the ticker is unknown, a
\* frame is empty) or of every selected period gives an empty or all-missing
\* series, and no invocation ever hands an exception to its caller.
C3_FailureGivesEmptySeries ==
    /\ ~result.raised
    /\ (Ran /\ (FetchFailed \/ \A d \in Selected : Fails(d))) => AllMissing(result.val)

\* the provider raises for a ticker whose statements hold computable periods
C3_Witness ==
    /\ Ran /\ ~up /\ args.ticker_symbol = "V" /\ args.num_years >= 1
    /\ \E d \in (DOMAIN IncomeStmt.cols) \cap (DOMAIN BalanceSheet.cols) : ~Fails(d)
    /\ result = [raised |-> FALSE, val |-> EmptyDict]

\* C4: a period whose extraction or computation raises is skipped alone: the
\* series returned is the one the other selected periods give without it, and
\* a valid selected period that is the only valid one of its year has there the
\* value it records when run alone.
C4_PeriodFailureIsolated ==
    (Ran /\ ~FetchFailed) =>
        /\ result.val = RunLoop(IncomeStmt, BalanceSheet,
                                SelectSeq(common_dates, LAMBDA d : ~Fails(d)),
                                NoLocals, EmptyDict)
        /\ \A d \in Selected :
              (~Fails(d) /\ \A e \in Selected \ {d} : YearOf(e) = YearOf(d) => Fails(e)) =>
                  /\ YearOf(d) \in DOMAIN result.val
                  /\ result.val[YearOf(d)] = Alone(d)

\* a failing period is selected between two valid ones of other years
C4_Witness ==
    /\ Ran /\ ~FetchFailed
    /\ \E a, b, c \in Selected :
          /\ a > b /\ b > c /\ Fails(b) /\ ~Fails(a) /\ ~Fails(c)
          /\ YearOf(a) # YearOf(c) /\ YearOf(b) # YearOf(c)
          /\ {YearOf(a), YearOf(c)} \subseteq DOMAIN result.val
          /\ result.val[YearOf(c)] = Alone(c) /\ IsNum(Alone(c))

InBoth == (DOMAIN IncomeStmt.cols) \cap (DOMAIN BalanceSheet.cols)

\* C6: the periods processed are exactly the most recent num_years period-end
\* dates present in both statements, visited in descending order; every year of
\* the series is the year of such a date.
C6_DateIntersectionPolicy ==
    /\ (pc = "loop" \/ (Ran /\ ~FetchFailed)) =>
          /\ Selected \subseteq InBoth
          /\ \A j, k \in 1 .. Len(common_dates) : j < k => common_dates[j] > common_dates[k]
          /\ Len(common_dates) = IF args.num_years < Cardinality(InBoth)
                                 THEN args.num_years ELSE Cardinality(InBoth)
          /\ \A d \in InBoth \ Selected : \A e \in Selected : d < e
          /\ i > 0 => loc.date = common_dates[i]
          /\ \A y \in DOMAIN roic_values_by_year : \E d \in InBoth : YearOf(d) = y
    /\ Ran => \A y \in DOMAIN result.val : \E d \in InBoth : YearOf(d) = y

\* fewer periods are asked for than are common, and the most recent income
\* period is missing from the balance sheet
C6_Witness ==
    /\ Ran /\ ~FetchFailed
    /\ args.num_years >= 1 /\ args.num_years < Cardinality(InBoth)
    /\ SetMax(DOMAIN IncomeStmt.cols) \notin InBoth
    /\ Len(common_dates) = args.num_years /\ i = Len(common_dates)
    /\ DOMAIN result.val # {}

\* C9: an invocation answered from the memoization cache returns what a fresh,
\* un-memoized invocation with the same arguments would return at that point.
C9_CacheAnswersAsFresh ==
    [][(pc' = "idle" /\ (pc = "loop" \/ todo' < todo)) =>
          result' = FreshCall(statements', up', args'.ticker_symbol, args'.num_years)]_vars

\* C10: with a successful fetch and no failing period the series has exactly
\* min(num_years, number of common dates) entries, one per selected period, and
\* the entry of a year holds the ROIC of the most recent selected period of that year.
C10_OneEntryPerPeriod ==
    (Ran /\ ~FetchFailed /\ \A d \in Selected : ~Fails(d)) =>
        /\ Cardinality(DOMAIN result.val) =
              (IF args.num_years < Cardinality(InBoth)
               THEN args.num_years ELSE Cardinality(InBoth))
        /\ \A d \in Selected :
              (\A e \in Selected : YearOf(e) = YearOf(d) => e <= d) =>
                  /\ YearOf(d) \in DOMAIN result.val
                  /\ result.val[YearOf(d)] = Alone(d)

====
